---- MODULE Spec2Model ----
(***************************************************************************)
(* The audio control surface of the "Dynamic Audio Studio" React app:      *)
(* the App component (src/unnamed/part_000), its PlayerControls            *)
(* (src/unnamed/part_002), EffectController (src/unnamed/part_001) and     *)
(* Equalizer (src/src/components/Equalizer.js).                            *)
(*                                                                         *)
(* One action is one browser event or one asynchronous callback: the       *)
(* handler it runs, the React re-render that follows and the effects       *)
(* whose dependencies changed.  The audio engine (Tone.js) is external:    *)
(* only the calls the code makes on it and the values it reads back are    *)
(* modelled.                                                               *)
(*                                                                         *)
(* Units: effect parameters are kept in tenths (playback rate 1.0 is 10,   *)
(* pitch +12 is 120, 1.5 s of reverb is 15, +3 dB is 30); positions and    *)
(* durations are whole seconds.                                            *)
(***************************************************************************)
EXTENDS Integers, Sequences, FiniteSets, TLC

(* ------------------------------ bounds -------------------------------- *)

\* Length of the decoded demo asset, in seconds (player.buffer.duration).
AssetDuration == 3

\* Engine transport calls (start, stop, seek) recorded per behaviour.
MaxCalls == 3

\* How far outside a slider's range a requested value may lie.
Overshoot == 1

\* EQ band changes issued back to back before one re-render.
MaxBatch == 2

\* Impulse regenerations in flight at a time.
MaxRegens == 3

\* How far past the end of the buffer the position the player reports may
\* lie: the program reads it as it is.
PositionOvershoot == 1

(* ------------------------- program constants -------------------------- *)

InitialRate == 10
InitialPitch == 0
InitialDecay == 15
InitialGain == 0

RateMin == 5
RateMax == 20
RateStep == 1
PitchMin == -120
PitchMax == 120
PitchStep == 10
DecayMin == 0
DecayMax == 50
DecayStep == 1
EqMin == -300
EqMax == 300
\* The Equalizer passes no step: the range input's default step is 1.
EqStep == 10
SeekMin == 0
SeekFallbackMax == 100

Nodes == {"player", "pitchShift", "reverb", "eq3"}
Bands == {"low", "mid", "high"}

VARIABLES
  \* React state of App (useState)
  isReady, isPlaying, playbackRate, pitch, reverbDecay, eq,
  duration, position, isSeeking,
  \* refs of App (useRef): TRUE when the ref holds its node
  playerRef, pitchShiftRef, reverbRef, eq3Ref,
  \* animationFrameRef.current: 0 is null, otherwise a frame request id
  animationFrameRef,
  \* component lifecycle and the position of the async setup()
  mounted, setupPc, loadState,
  \* the browser's list of pending animation frame callbacks; each is the
  \* updatePosition closure of one effect run, with the isSeeking it captured
  pendingFrames,
  \* the engine: nodes constructed, dispose() calls per node, the player's
  \* state and the position it reports, node parameters, the decays of the
  \* impulse regenerations in flight (in the order they were started), the
  \* decay of the impulse in use and the decay the last generate() call was
  \* started with (-1 before the first call)
  created, disposed, playerState, enginePos,
  engineRate, enginePitch, engineDecay, engineEq, regens, impulseDecay,
  lastGenerate,
  \* history: the start, stop and seek calls made on the player, in order, and the last
  \* event handled (its name, its raw input, whether the control was disabled)
  calls, lastOp

reactState == <<isReady, isPlaying, playbackRate, pitch, reverbDecay, eq,
                duration, position, isSeeking>>
refs == <<playerRef, pitchShiftRef, reverbRef, eq3Ref>>
frames == <<animationFrameRef, pendingFrames>>
lifecycle == <<mounted, setupPc, loadState>>
engineNodes == <<created, disposed>>
transport == <<playerState, enginePos, engineRate, calls>>
engineParams == <<enginePitch, engineDecay, engineEq, regens, impulseDecay,
                  lastGenerate>>
fxState == <<playbackRate, pitch, reverbDecay, eq>>

vars == <<reactState, refs, frames, lifecycle, engineNodes, transport,
          engineParams, lastOp>>

\* What an observer sees just before an event: used to relate the state after
\* consecutive togglePlay calls to the state they started from.
Snapshot == [ready |-> isReady, playing |-> isPlaying, ncalls |-> Len(calls)]

\* The record of the last event.  `run` holds the snapshots taken before the
\* last (at most two) consecutive togglePlay clicks, and is empty otherwise.
Op(name, arg) == [name |-> name, arg |-> arg, blocked |-> FALSE, run |-> <<>>]
BlockedOp(name, arg) == [Op(name, arg) EXCEPT !.blocked = TRUE]
ToggleRun ==
  IF lastOp.name = "togglePlay"
    THEN IF Len(lastOp.run) = 2 THEN <<lastOp.run[2], Snapshot>>
         ELSE Append(lastOp.run, Snapshot)
    ELSE <<Snapshot>>
Call(op, arg) == [op |-> op, arg |-> arg]

(* ------------------------------- Init --------------------------------- *)

\* State after the first render and the mount effects: setup() has been
\* called and is suspended at `await Tone.start()`; the polling effect ran
\* with isPlaying false (cancelAnimationFrame(null)).
Init ==
  /\ isReady = FALSE
  /\ isPlaying = FALSE
  /\ playbackRate = InitialRate
  /\ pitch = InitialPitch
  /\ reverbDecay = InitialDecay
  /\ eq = [b \in Bands |-> InitialGain]
  /\ duration = 0
  /\ position = 0
  /\ isSeeking = FALSE
  /\ playerRef = FALSE
  /\ pitchShiftRef = FALSE
  /\ reverbRef = FALSE
  /\ eq3Ref = FALSE
  /\ animationFrameRef = 0
  /\ mounted = TRUE
  /\ setupPc = "toneStart"
  /\ loadState = "idle"
  /\ pendingFrames = {}
  /\ created = [n \in Nodes |-> FALSE]
  /\ disposed = [n \in Nodes |-> 0]
  /\ playerState = "stopped"
  /\ enginePos = 0
  /\ engineRate = InitialRate
  /\ enginePitch = InitialPitch
  /\ engineDecay = InitialDecay
  /\ engineEq = [b \in Bands |-> InitialGain]
  /\ regens = <<>>
  /\ impulseDecay = InitialDecay
  /\ lastGenerate = -1
  /\ calls = <<>>
  /\ lastOp = Op("mount", 0)

(* ------------------------- session initialization --------------------- *)

\* `await Tone.start()` resolves: the player is constructed (its asset starts
\* loading), then the pitch shifter and the reverb, with the values setup()
\* captured at the first render; setup() suspends at `await reverb.generate()`.
\* Nothing cancels setup() when the component unmounts.
ToneStartResolved ==
  /\ setupPc = "toneStart"
  /\ setupPc' = "generate"
  /\ loadState' = "loading"
  /\ created' = [created EXCEPT !["player"] = TRUE, !["pitchShift"] = TRUE,
                                !["reverb"] = TRUE]
  /\ enginePitch' = InitialPitch
  /\ engineDecay' = InitialDecay
  /\ lastGenerate' = InitialDecay
  /\ lastOp' = Op("toneStart", 0)
  /\ UNCHANGED <<reactState, refs, frames, mounted, disposed, transport,
                 engineEq, regens, impulseDecay>>

\* `await Tone.start()` rejects: setup() ends there, its promise is dropped.
ToneStartRejected ==
  /\ setupPc = "toneStart"
  /\ setupPc' = "failed"
  /\ lastOp' = Op("toneStartRejected", 0)
  /\ UNCHANGED <<reactState, refs, frames, mounted, loadState, engineNodes,
                 transport, engineParams>>

\* `await reverb.generate()` resolves: the EQ is constructed, the chain is
\* connected and the four refs are stored.
GenerateResolved ==
  /\ setupPc = "generate"
  /\ setupPc' = "done"
  /\ created' = [created EXCEPT !["eq3"] = TRUE]
  /\ engineEq' = [b \in Bands |-> InitialGain]
  /\ impulseDecay' = InitialDecay
  /\ playerRef' = TRUE
  /\ pitchShiftRef' = TRUE
  /\ reverbRef' = TRUE
  /\ eq3Ref' = TRUE
  /\ lastOp' = Op("generate", 0)
  /\ UNCHANGED <<reactState, frames, mounted, loadState, disposed, transport,
                 enginePitch, engineDecay, regens, lastGenerate>>

\* `await reverb.generate()` rejects: setup() ends before the refs are stored.
GenerateRejected ==
  /\ setupPc = "generate"
  /\ setupPc' = "failed"
  /\ lastOp' = Op("generateRejected", 0)
  /\ UNCHANGED <<reactState, refs, frames, mounted, loadState, engineNodes,
                 transport, engineParams>>

\* The player's onload callback: setIsReady(true); setDuration(buffer.duration).
\* React drops state updates of an unmounted component.
PlayerLoaded ==
  /\ loadState = "loading"
  /\ loadState' = "loaded"
  /\ isReady' = (IF mounted THEN TRUE ELSE isReady)
  /\ duration' = (IF mounted THEN AssetDuration ELSE duration)
  /\ lastOp' = Op("loaded", 0)
  /\ UNCHANGED <<isPlaying, fxState, position, isSeeking, refs, frames,
                 mounted, setupPc, engineNodes, transport, engineParams>>

\* The asset cannot be fetched or decoded: the onload callback never runs.
PlayerLoadFailed ==
  /\ loadState = "loading"
  /\ loadState' = "error"
  /\ lastOp' = Op("loadFailed", 0)
  /\ UNCHANGED <<reactState, refs, frames, mounted, setupPc, engineNodes,
                 transport, engineParams>>

(* ------------------------ animation frame requests -------------------- *)

FrameIds(fs) == {f.id : f \in fs}

\* requestAnimationFrame returns an id no pending request carries.  Ids are
\* reused once neither a pending request nor animationFrameRef holds them.
requestAnimationFrame(fs, ref) ==
  CHOOSE i \in 1..(Cardinality(fs) + 2) :
    /\ i \notin FrameIds(fs) \cup {ref}
    /\ \A j \in 1..(i - 1) : j \in FrameIds(fs) \cup {ref}

\* cancelAnimationFrame(id): drops the pending request with that id, if any.
cancelAnimationFrame_noop(fs, id) == fs
cancelAnimationFrame(fs, id) == {f \in fs : f.id # id}

\* The polling effect (deps [isPlaying, isSeeking]) re-running after a render
\* that changed one of them: the previous run's cleanup cancels the request in
\* animationFrameRef, then the body arms a new updatePosition closure if
\* isPlaying, or cancels again if not.
PollingEffect_alwaysArm(playing, seeking) ==
  LET cleaned == cancelAnimationFrame(pendingFrames, animationFrameRef)
      id == requestAnimationFrame(cleaned, animationFrameRef)
  IN /\ pendingFrames' = cleaned \cup {[id |-> id, isSeeking |-> seeking]}
     /\ animationFrameRef' = id
PollingEffect_noCleanup(playing, seeking) ==
  LET id == requestAnimationFrame(pendingFrames, animationFrameRef)
  IN IF playing
       THEN /\ pendingFrames' = pendingFrames
                                  \cup {[id |-> id, isSeeking |-> seeking]}
            /\ animationFrameRef' = id
       ELSE /\ pendingFrames' = cancelAnimationFrame(pendingFrames,
                                                     animationFrameRef)
            /\ animationFrameRef' = animationFrameRef
PollingEffect(playing, seeking) ==
  LET cleaned == cancelAnimationFrame(pendingFrames, animationFrameRef)
      id == requestAnimationFrame(cleaned, animationFrameRef)
  IN IF playing
       THEN /\ pendingFrames' = cleaned \cup {[id |-> id, isSeeking |-> seeking]}
            /\ animationFrameRef' = id
       ELSE /\ pendingFrames' = cancelAnimationFrame(cleaned, animationFrameRef)
            /\ animationFrameRef' = animationFrameRef

\* Whether an updatePosition closure writes the engine position on its tick.
TickWrites_ignoreSeeking(f) == playerRef /\ playerState = "started"
TickWrites(f) == playerRef /\ playerState = "started" /\ ~f.isSeeking

\* One animation frame fires: updatePosition runs with the isSeeking of the
\* render that created it, then re-arms itself and stores the new id.
Tick_rearmOnWrite(f) ==
  /\ f \in pendingFrames
  /\ position' = (IF TickWrites(f) /\ mounted THEN enginePos ELSE position)
  /\ LET rest == pendingFrames \ {f}
         id == requestAnimationFrame(rest, animationFrameRef)
     IN IF TickWrites(f)
          THEN /\ pendingFrames' = rest \cup {[id |-> id,
                                               isSeeking |-> f.isSeeking]}
               /\ animationFrameRef' = id
          ELSE /\ pendingFrames' = rest
               /\ animationFrameRef' = animationFrameRef
  /\ lastOp' = Op("tick", 0)
  /\ UNCHANGED <<isReady, isPlaying, fxState, duration, isSeeking, refs,
                 lifecycle, engineNodes, transport, engineParams>>
Tick(f) ==
  /\ f \in pendingFrames
  /\ position' = (IF TickWrites(f) /\ mounted THEN enginePos ELSE position)
  /\ LET rest == pendingFrames \ {f}
         id == requestAnimationFrame(rest, animationFrameRef)
     IN /\ pendingFrames' = rest \cup {[id |-> id, isSeeking |-> f.isSeeking]}
        /\ animationFrameRef' = id
  /\ lastOp' = Op("tick", 0)
  /\ UNCHANGED <<isReady, isPlaying, fxState, duration, isSeeking, refs,
                 lifecycle, engineNodes, transport, engineParams>>

(* ------------------------------ transport ----------------------------- *)

\* PlayerControls: <button onClick={togglePlay} disabled={!isReady}>.
PlayButtonDisabled_never == FALSE
PlayButtonDisabled_noPlayer == ~playerRef
PlayButtonDisabled == ~isReady

\* App.togglePlay, with the render and the polling effect that follow it.
togglePlay ==
  IF ~playerRef
    THEN UNCHANGED <<reactState, frames, transport>>
    ELSE IF ~isPlaying
      THEN /\ Len(calls) + 1 <= MaxCalls
           /\ engineRate' = playbackRate
           /\ playerState' = "started"
           /\ enginePos' = 0
           /\ calls' = Append(calls, Call("start", 0))
           /\ isPlaying' = TRUE
           /\ PollingEffect(TRUE, isSeeking)
           /\ UNCHANGED <<isReady, fxState, duration, position, isSeeking>>
      ELSE /\ Len(calls) + 1 <= MaxCalls
           /\ playerState' = "stopped"
           /\ calls' = Append(calls, Call("stop", 0))
           /\ isPlaying' = FALSE
           /\ PollingEffect(FALSE, isSeeking)
           /\ UNCHANGED <<isReady, fxState, duration, position, isSeeking,
                          enginePos, engineRate>>

\* A click on the play button.  A disabled button dispatches no click event.
ClickPlay ==
  /\ mounted
  /\ IF PlayButtonDisabled
       THEN /\ lastOp' = [BlockedOp("togglePlay", 0) EXCEPT !.run = ToggleRun]
            /\ UNCHANGED <<reactState, frames, transport>>
       ELSE /\ lastOp' = [Op("togglePlay", 0) EXCEPT !.run = ToggleRun]
            /\ togglePlay
  /\ UNCHANGED <<refs, lifecycle, engineNodes, engineParams>>

\* PlayerControls: the progress slider, <input type="range" min="0"
\* max={duration || 100} disabled={!isReady}>.
SeekSliderDisabled == ~isReady
SeekSliderMax == IF duration # 0 THEN duration ELSE SeekFallbackMax

\* The value a range input reports for a requested value: within [min, max].
SeekSliderValue(raw) ==
  IF raw < SeekMin THEN SeekMin
  ELSE IF raw > SeekSliderMax THEN SeekSliderMax
  ELSE raw

\* The pointer events of the slider: a disabled input gets no mouse event
\* (onMouseDown, onMouseUp), but its touch handlers (onTouchStart, onTouchEnd)
\* run all the same.
SeekPointerBlocked(touch) == SeekSliderDisabled /\ ~touch

\* App.handleSeekStart (onMouseDown / onTouchStart of the slider).
handleSeekStart(touch) ==
  /\ mounted /\ ~SeekPointerBlocked(touch)
  /\ isSeeking' = TRUE
  /\ IF isSeeking THEN UNCHANGED frames ELSE PollingEffect(isPlaying, TRUE)
  /\ lastOp' = Op("beginSeek", 0)
  /\ UNCHANGED <<isReady, isPlaying, fxState, duration, position, refs,
                 lifecycle, engineNodes, transport, engineParams>>

\* App.handleSeek (onChange of the slider) with the slider's value.
handleSeek_commits(raw) ==
  /\ mounted /\ ~SeekSliderDisabled
  /\ position' = SeekSliderValue(raw)
  /\ IF playerRef
       THEN /\ Len(calls) + 1 <= MaxCalls
            /\ calls' = Append(calls, Call("seek", SeekSliderValue(raw)))
            /\ enginePos' = (IF playerState = "started"
                               THEN SeekSliderValue(raw) ELSE enginePos)
       ELSE UNCHANGED <<calls, enginePos>>
  /\ lastOp' = Op("seekTo", raw)
  /\ UNCHANGED <<isReady, isPlaying, fxState, duration, isSeeking, refs,
                 frames, lifecycle, engineNodes, playerState, engineRate,
                 engineParams>>
handleSeek(raw) ==
  /\ mounted /\ ~SeekSliderDisabled
  /\ position' = SeekSliderValue(raw)
  /\ lastOp' = Op("seekTo", raw)
  /\ UNCHANGED <<isReady, isPlaying, fxState, duration, isSeeking, refs,
                 frames, lifecycle, engineNodes, transport, engineParams>>

\* player.seek(offset): a started player restarts at the offset.
PlayerSeek(offset) == IF playerState = "started" THEN offset ELSE enginePos

\* App.handleSeekEnd (onMouseUp / onTouchEnd of the slider).
handleSeekEnd(touch) ==
  /\ mounted /\ ~SeekPointerBlocked(touch)
  /\ isSeeking' = FALSE
  /\ IF playerRef
       THEN /\ Len(calls) + 1 <= MaxCalls
            /\ calls' = Append(calls, Call("seek", position))
            /\ enginePos' = PlayerSeek(position)
       ELSE UNCHANGED <<calls, enginePos>>
  /\ IF isSeeking THEN PollingEffect(isPlaying, FALSE) ELSE UNCHANGED frames
  /\ lastOp' = Op("endSeek", 0)
  /\ UNCHANGED <<isReady, isPlaying, fxState, duration, position, refs,
                 lifecycle, engineNodes, playerState, engineRate, engineParams>>

(* ------------------------- the engine's playhead ---------------------- *)

\* The position a started player reports (playerRef.current.position) moves
\* on.  Nothing in the program keeps it within the buffer's duration.
EngineAdvance ==
  /\ playerState = "started"
  /\ enginePos < AssetDuration + PositionOvershoot
  /\ enginePos' = enginePos + 1
  /\ lastOp' = Op("advance", 0)
  /\ UNCHANGED <<reactState, refs, frames, lifecycle, engineNodes,
                 playerState, engineRate, calls, engineParams>>

\* The player reaches the end of its buffer and stops by itself.
EngineEnded ==
  /\ playerState = "started"
  /\ enginePos >= AssetDuration
  /\ playerState' = "stopped"
  /\ lastOp' = Op("ended", 0)
  /\ UNCHANGED <<reactState, refs, frames, lifecycle, engineNodes,
                 enginePos, engineRate, calls, engineParams>>

(* ------------------------------ teardown ------------------------------ *)

\* ref.current?.dispose()
Dispose(d, ref, n) == IF ref THEN [d EXCEPT ![n] = @ + 1] ELSE d

\* The component unmounts: the cleanup of the setup effect disposes the nodes
\* the refs hold and cancels the frame request, then the cleanup of the
\* polling effect cancels it again.
Unmount ==
  /\ mounted
  /\ mounted' = FALSE
  /\ disposed' = Dispose(Dispose(Dispose(Dispose(disposed,
                   playerRef, "player"), pitchShiftRef, "pitchShift"),
                   reverbRef, "reverb"), eq3Ref, "eq3")
  /\ playerState' = (IF playerRef THEN "stopped" ELSE playerState)
  /\ pendingFrames' = cancelAnimationFrame(
                        cancelAnimationFrame(pendingFrames, animationFrameRef),
                        animationFrameRef)
  /\ lastOp' = Op("unmount", 0)
  /\ UNCHANGED <<reactState, refs, animationFrameRef, setupPc, loadState,
                 created, enginePos, engineRate, calls, engineParams>>

(* --------------------------- specification ---------------------------- *)

SeekInputs == (SeekMin - Overshoot)..(AssetDuration + Overshoot)

Next ==
  \/ ToneStartResolved
  \/ ToneStartRejected
  \/ GenerateResolved
  \/ GenerateRejected
  \/ PlayerLoaded
  \/ PlayerLoadFailed
  \/ ClickPlay
  \/ \E touch \in BOOLEAN : handleSeekStart(touch)
  \/ \E raw \in SeekInputs : handleSeek(raw)
  \/ \E touch \in BOOLEAN : handleSeekEnd(touch)
  \/ \E f \in pendingFrames : Tick(f)
  \/ EngineAdvance
  \/ EngineEnded
  \/ Unmount

Spec == Init /\ [][Next]_vars

(* ---------------- specification of the polling loop ------------------- *)

\* Slider values of the seek gestures made while the loop is observed: both
\* ends of the progress slider.
PollingSeekInputs == {SeekMin, AssetDuration}

\* A session whose initialization succeeds, up to its unmount.
NextPolling ==
  \/ ToneStartResolved
  \/ GenerateResolved
  \/ PlayerLoaded
  \/ ClickPlay
  \/ \E touch \in BOOLEAN : handleSeekStart(touch)
  \/ \E raw \in PollingSeekInputs : handleSeek(raw)
  \/ \E touch \in BOOLEAN : handleSeekEnd(touch)
  \/ \E f \in pendingFrames : Tick(f)
  \/ EngineAdvance
  \/ EngineEnded
  \/ Unmount

\* The browser runs a pending animation frame callback at its next repaint: a
\* callback that stays pending is eventually run.
SpecPolling ==
  /\ Init
  /\ [][NextPolling]_vars
  /\ WF_vars(\E f \in pendingFrames : Tick(f))

(* --------------------------- effect parameters ------------------------ *)

\* EffectController: <input type="range" min max step disabled={!isReady}>.
EffectSliderDisabled == ~isReady

\* The value a range input reports for a requested value: clamped to
\* [min, max], then moved to the nearest min + k * step not above max.
SliderValue_unsanitized(raw, min, max, step) == raw
SliderValue(raw, min, max, step) ==
  LET c == IF raw < min THEN min ELSE IF raw > max THEN max ELSE raw
      k == (2 * (c - min) + step) \div (2 * step)
      s == min + k * step
  IN IF s > max THEN s - step ELSE s

\* parseInt of a number: its integer part (values are in tenths).
parseInt(v) == IF v < 0 THEN -(((-v) \div 10) * 10) ELSE (v \div 10) * 10

\* `${n}` for a number held in tenths: "12", "-5", "0.3", "1.5".
NumberToString(t) ==
  LET a == IF t < 0 THEN -t ELSE t
  IN (IF t < 0 THEN "-" ELSE "") \o ToString(a \div 10)
       \o (IF a % 10 = 0 THEN "" ELSE "." \o ToString(a % 10))

\* `if (playerRef.current) playerRef.current.playbackRate = value`: the rate
\* of the player after the statement.
PlayerRate_dropped(value) == engineRate
PlayerRate(value) == IF playerRef THEN value ELSE engineRate

\* App.handlePlaybackRateChange, from the "Playback Speed" slider.
handlePlaybackRateChange(raw) ==
  LET value == SliderValue(raw, RateMin, RateMax, RateStep)
  IN /\ mounted /\ ~EffectSliderDisabled
     /\ playbackRate' = value
     /\ engineRate' = PlayerRate(value)
     /\ lastOp' = Op("setRate", raw)
     /\ UNCHANGED <<isReady, isPlaying, pitch, reverbDecay, eq, duration,
                    position, isSeeking, refs, frames, lifecycle, engineNodes,
                    playerState, enginePos, calls, engineParams>>

\* App.handlePitchChange, from the "Pitch Shift" slider, and the [pitch]
\* effect, which runs when the rendered pitch changed.
handlePitchChange(raw) ==
  LET value == SliderValue(raw, PitchMin, PitchMax, PitchStep)
  IN /\ mounted /\ ~EffectSliderDisabled
     /\ pitch' = value
     /\ enginePitch' = (IF value # pitch /\ pitchShiftRef THEN value
                        ELSE enginePitch)
     /\ lastOp' = Op("setPitch", raw)
     /\ UNCHANGED <<isReady, isPlaying, playbackRate, reverbDecay, eq,
                    duration, position, isSeeking, refs, frames, lifecycle,
                    engineNodes, transport, engineDecay, engineEq, regens,
                    impulseDecay, lastGenerate>>

\* App.handleReverbChange, from the "Reverb" slider, and the [reverbDecay]
\* effect: set the decay, then start a regeneration of the impulse (not
\* awaited).
handleReverbChange(raw) ==
  LET value == SliderValue(raw, DecayMin, DecayMax, DecayStep)
  IN /\ mounted /\ ~EffectSliderDisabled
     /\ reverbDecay' = value
     /\ IF value # reverbDecay /\ reverbRef
          THEN /\ Len(regens) < MaxRegens
               /\ engineDecay' = value
               /\ regens' = Append(regens, value)
               /\ lastGenerate' = value
          ELSE UNCHANGED <<engineDecay, regens, lastGenerate>>
     /\ lastOp' = Op("setDecay", raw)
     /\ UNCHANGED <<isReady, isPlaying, playbackRate, pitch, eq, duration,
                    position, isSeeking, refs, frames, lifecycle, engineNodes,
                    transport, enginePitch, engineEq, impulseDecay>>

\* The i-th regeneration in flight completes (they complete in any order):
\* the reverb takes the impulse rendered for the decay it was started with.
RegenResolved(i) ==
  /\ i \in 1..Len(regens)
  /\ regens' = SubSeq(regens, 1, i - 1) \o SubSeq(regens, i + 1, Len(regens))
  /\ impulseDecay' = regens[i]
  /\ lastOp' = Op("regenerated", regens[i])
  /\ UNCHANGED <<reactState, refs, frames, lifecycle, engineNodes, transport,
                 enginePitch, engineDecay, engineEq, lastGenerate>>

\* The updater handleEqChange gives to setEq:
\* (prev) => ({ ...prev, [band]: parseInt(value) }).
EqUpdater_closure(prev, band, value) == [eq EXCEPT ![band] = parseInt(value)]
EqUpdater(prev, band, value) == [prev EXCEPT ![band] = parseInt(value)]

\* App.handleEqChange, from a band slider of the Equalizer, and the [eq]
\* effect: setEq always stores a new object, so the effect always runs.
handleEqChange(band, raw) ==
  LET value == SliderValue(raw, EqMin, EqMax, EqStep)
      next == EqUpdater(eq, band, value)
  IN /\ mounted /\ ~EffectSliderDisabled
     /\ eq' = next
     /\ engineEq' = (IF eq3Ref THEN next ELSE engineEq)
     /\ lastOp' = Op("setEq", raw)
     /\ UNCHANGED <<isReady, isPlaying, playbackRate, pitch, reverbDecay,
                    duration, position, isSeeking, refs, frames, lifecycle,
                    engineNodes, transport, enginePitch, engineDecay, regens,
                    impulseDecay, lastGenerate>>

\* React's update queue for eq at the next render: every queued updater is
\* applied, in the order of the setEq calls, to the result of the one before.
RECURSIVE ApplyEqUpdates(_, _)
ApplyEqUpdates(prev, updates) ==
  IF updates = <<>> THEN prev
  ELSE LET u == Head(updates)
       IN ApplyEqUpdates(
            EqUpdater(prev, u.band, SliderValue(u.raw, EqMin, EqMax, EqStep)),
            Tail(updates))

\* App.handleEqChange called once per update of a batch before React
\* re-renders, then the render and the [eq] effect, which runs once.
handleEqChanges(updates) ==
  LET next == ApplyEqUpdates(eq, updates)
  IN /\ mounted /\ ~EffectSliderDisabled
     /\ updates # <<>>
     /\ eq' = next
     /\ engineEq' = (IF eq3Ref THEN next ELSE engineEq)
     /\ lastOp' = Op("setEqBatch", updates)
     /\ UNCHANGED <<isReady, isPlaying, playbackRate, pitch, reverbDecay,
                    duration, position, isSeeking, refs, frames, lifecycle,
                    engineNodes, transport, enginePitch, engineDecay, regens,
                    impulseDecay, lastGenerate>>

(* ------------------------------- labels ------------------------------- *)

getPitchName ==
  IF pitch = 0 THEN "Original"
  ELSE IF pitch > 0 THEN "+" \o NumberToString(pitch) \o " semitones (higher)"
  ELSE NumberToString(pitch) \o " semitones (lower)"

\* App.getReverbName (thresholds 0.5, 1.5 and 3 seconds, in tenths).
getReverbName_inclusive ==
  IF reverbDecay <= 5 THEN "Dry"
  ELSE IF reverbDecay <= 15 THEN "Medium Room"
  ELSE IF reverbDecay <= 30 THEN "Large Hall"
  ELSE "Cathedral"
getReverbName ==
  IF reverbDecay < 5 THEN "Dry"
  ELSE IF reverbDecay < 15 THEN "Medium Room"
  ELSE IF reverbDecay < 30 THEN "Large Hall"
  ELSE "Cathedral"

MathAbs(v) == IF v < 0 THEN -v ELSE v

\* App.getEqName.
getEqName_signed(band) ==
  LET value == eq[band]
  IN IF value = 0 THEN "Neutral"
     ELSE IF value > 0 THEN "Boost +" \o NumberToString(value) \o "dB"
     ELSE "Cut " \o NumberToString(value) \o "dB"
getEqName(band) ==
  LET value == eq[band]
  IN IF value = 0 THEN "Neutral"
     ELSE IF value > 0 THEN "Boost +" \o NumberToString(value) \o "dB"
     ELSE "Cut " \o NumberToString(MathAbs(value)) \o "dB"

\* Equalizer: numericValue={`${eq.low}dB`} of a band's controller.
EqNumericValue(band) == NumberToString(eq[band]) \o "dB"

(* ------------------ specification of the effect controls -------------- *)

\* Requested values: one below the minimum and one above the maximum of each
\* slider (pitch 15 among them), and an EQ gain between two steps.
SliderInputs(min, max, step) == {min - Overshoot * step, max + 3 * step}

RateInputs == SliderInputs(RateMin, RateMax, RateStep)
PitchInputs == SliderInputs(PitchMin, PitchMax, PitchStep)
DecayInputs == SliderInputs(DecayMin, DecayMax, DecayStep)
EqInputs == SliderInputs(EqMin, EqMax, EqStep) \cup {-54}

NextFx ==
  \/ ToneStartResolved
  \/ GenerateResolved
  \/ PlayerLoaded
  \/ \E raw \in RateInputs : handlePlaybackRateChange(raw)
  \/ \E raw \in PitchInputs : handlePitchChange(raw)
  \/ \E raw \in DecayInputs : handleReverbChange(raw)
  \/ \E i \in 1..Len(regens) : RegenResolved(i)
  \/ \E band \in Bands, raw \in EqInputs : handleEqChange(band, raw)

SpecFx == Init /\ [][NextFx]_vars

(* ---------------- specifications of the displayed labels ------------- *)

\* Every position of the "Reverb" slider, and one step beyond each end.
AllDecayInputs ==
  (DecayMin - Overshoot * DecayStep)..(DecayMax + Overshoot * DecayStep)

\* The session with its "Reverb" slider over its whole range.  The user moves
\* the slider again once the regeneration it started has completed.
NextDecay ==
  \/ ToneStartResolved
  \/ GenerateResolved
  \/ PlayerLoaded
  \/ /\ regens = <<>>
     /\ \E raw \in AllDecayInputs : handleReverbChange(raw)
  \/ \E i \in 1..Len(regens) : RegenResolved(i)

SpecDecay == Init /\ [][NextDecay]_vars

\* Every whole gain of an EQ slider, one step beyond each end, and a gain
\* between two steps.
AllEqInputs ==
  {EqStep * k : k \in ((EqMin \div EqStep) - Overshoot)
                       ..((EqMax \div EqStep) + Overshoot)} \cup {-54}

\* The session with its three EQ sliders over their whole range.  The user
\* moves one band at a time, the other two being at their initial gain.
NextEq ==
  \/ ToneStartResolved
  \/ GenerateResolved
  \/ PlayerLoaded
  \/ \E band \in Bands, raw \in AllEqInputs :
       /\ \A b \in Bands \ {band} : eq[b] = InitialGain
       /\ handleEqChange(band, raw)

SpecEq == Init /\ [][NextEq]_vars

(* ------------- specification of batched EQ band changes -------------- *)

\* Requested gains of a batch: one above the maximum and one between two
\* steps.
BatchEqInputs == {EqMax + Overshoot * EqStep, -54}

\* The batches of one to MaxBatch band changes.
EqBatches ==
  UNION {[1..n -> [band : Bands, raw : BatchEqInputs]] : n \in 1..MaxBatch}

\* The session with band changes handled one or several per render.
NextEqBatch ==
  \/ ToneStartResolved
  \/ GenerateResolved
  \/ PlayerLoaded
  \/ \E updates \in EqBatches : handleEqChanges(updates)

SpecEqBatch == Init /\ [][NextEqBatch]_vars

(* -------------- specification of the rate control in playback --------- *)

\* The session with its play button, its playback and the "Playback Speed"
\* slider.
NextRate ==
  \/ ToneStartResolved
  \/ GenerateResolved
  \/ PlayerLoaded
  \/ ClickPlay
  \/ \E f \in pendingFrames : Tick(f)
  \/ EngineAdvance
  \/ EngineEnded
  \/ \E raw \in RateInputs : handlePlaybackRateChange(raw)

SpecRate == Init /\ [][NextRate]_vars

(* ------------------------------ properties ---------------------------- *)

GraphBuilt ==
  /\ setupPc = "done"
  /\ playerRef /\ pitchShiftRef /\ reverbRef /\ eq3Ref
  /\ \A n \in Nodes : created[n]

CountCalls(op, cs) == Cardinality({i \in 1..Len(cs) : cs[i].op = op})
CallsSince(n) == SubSeq(calls, n + 1, Len(calls))

\* C1: in every reachable state, whatever the interleaving of the asset-load
\* callback, the steps of setup() and clicks on the play button, isPlaying
\* implies isReady.
C1_PlayingImpliesReady == isPlaying => isReady

\* C1 witness: a click started playback.
C1_Witness ==
  /\ lastOp.name = "togglePlay" /\ ~lastOp.blocked
  /\ isPlaying /\ isReady /\ playerState = "started"

\* C2 as stated: isReady is true only when the asset is decoded and the graph
\* is constructed (reverb generated, nodes chained, refs stored).
C2_ReadyImpliesGraphBuilt == isReady => (loadState = "loaded" /\ GraphBuilt)

\* C3: a togglePlay request while the session is not ready changes nothing of
\* the control state and makes no call on the engine.
C3_NotReadyToggleIsNoOp ==
  [][(lastOp'.name = "togglePlay" /\ ~isReady)
       => UNCHANGED <<reactState, refs, frames, transport, engineNodes,
                      engineParams>>]_vars

\* C3 witness: the play button was clicked while not ready although the graph
\* was already built (playerRef set), and nothing played.
C3_Witness ==
  /\ lastOp.name = "togglePlay" /\ lastOp.blocked
  /\ ~isReady /\ playerRef /\ ~isPlaying /\ calls = <<>>

\* C4: after any sequence of seeks (whatever value is requested of the slider)
\* and polling ticks, position lies in [0, duration].
C4_PositionWithinDuration == position >= 0 /\ position <= duration

\* C5: while isSeeking is true only seekTo changes position; no polling tick
\* does, not even one armed before the gesture began.
C5_SeekingFreezesPolling ==
  [][(isSeeking /\ position' # position) => lastOp'.name = "seekTo"]_vars

\* C5 witness: a tick ran during a seek gesture while the engine was running
\* at a position other than the one shown.
C5_Witness ==
  /\ lastOp.name = "tick" /\ isSeeking /\ isPlaying
  /\ playerRef /\ playerState = "started" /\ enginePos # position

\* C6 as stated: the endSeek of a gesture makes exactly one engine seek call,
\* with the position last set, and no other step of the gesture makes one.
C6_OneSeekPerGesture ==
  [][isSeeking =>
       IF lastOp'.name = "endSeek"
         THEN calls' = Append(calls, Call("seek", position))
         ELSE CountCalls("seek", calls') = CountCalls("seek", calls)]_vars

\* C7: whatever value is requested of a slider, the field its setter writes
\* stays within the declared range (rate [0.5, 2], pitch [-12, 12], decay
\* [0, 5], each EQ band [-30, 30]); requesting pitch 15 gives pitch 12 and the
\* label "+12 semitones (higher)".
C7_SettersStayInRange ==
  /\ playbackRate >= RateMin /\ playbackRate <= RateMax
  /\ pitch >= PitchMin /\ pitch <= PitchMax
  /\ reverbDecay >= DecayMin /\ reverbDecay <= DecayMax
  /\ \A b \in Bands : eq[b] >= EqMin /\ eq[b] <= EqMax
  /\ (lastOp.name = "setPitch" /\ lastOp.arg = 150) =>
       (pitch = 120 /\ getPitchName = "+12 semitones (higher)")

\* C7 witness: pitch 15 was requested and pitch is 12.
C7_Witness ==
  /\ lastOp.name = "setPitch" /\ lastOp.arg = 150
  /\ pitch = PitchMax /\ enginePitch = PitchMax

\* C8 as stated: once torn down, every node the session constructed has been
\* disposed exactly once.
C8_DisposedExactlyOnce ==
  ~mounted => \A n \in Nodes : created[n] => disposed[n] = 1

\* C9: once torn down no frame callback is pending, no tick runs and position
\* is never written again.
C9_NoTickAfterTeardown ==
  [][~mounted' => /\ pendingFrames' = {}
                  /\ lastOp'.name # "tick"
                  /\ (~mounted => position' = position)]_vars

\* C9 witness: teardown happened while polling (playing, a frame armed).
C9_Witness ==
  /\ lastOp.name = "unmount" /\ ~mounted
  /\ isPlaying /\ animationFrameRef # 0 /\ pendingFrames = {}
  /\ disposed["player"] = 1

\* C10 as stated: two consecutive togglePlay calls from a ready state restore
\* isPlaying and make exactly one start and one stop call; start and stop
\* calls alternate.
C10_ToggleTwice ==
  /\ (Len(lastOp.run) = 2 /\ lastOp.run[1].ready) =>
       /\ isPlaying = lastOp.run[1].playing
       /\ CountCalls("start", CallsSince(lastOp.run[1].ncalls)) = 1
       /\ CountCalls("stop", CallsSince(lastOp.run[1].ncalls)) = 1
  /\ CountCalls("start", calls) - CountCalls("stop", calls)
       = (IF isPlaying THEN 1 ELSE 0)

\* C11: while the component is mounted a frame callback is pending exactly
\* while isPlaying is true; when isPlaying is false none is pending, so no
\* tick runs.
C11_PollingWhilePlaying ==
  /\ ~isPlaying => pendingFrames = {}
  /\ (mounted /\ isPlaying) => pendingFrames # {}

\* C11 witness: playback was started and stopped again; the frame armed for
\* it is no longer pending.
C11_Witness ==
  /\ lastOp.name = "togglePlay" /\ ~lastOp.blocked /\ mounted
  /\ ~isPlaying /\ CountCalls("stop", calls) > 0
  /\ animationFrameRef # 0 /\ pendingFrames = {}

\* C20: at most one frame callback is pending at any time, and it is the one
\* animationFrameRef holds.
C20_OnePendingFrame ==
  /\ Cardinality(pendingFrames) <= 1
  /\ FrameIds(pendingFrames) \subseteq {animationFrameRef}

\* C20 witness: a seek gesture began during playback; the polling effect ran
\* again and the only pending callback is the new one.
C20_Witness ==
  /\ lastOp.name = "beginSeek" /\ isPlaying /\ isSeeking
  /\ Cardinality(pendingFrames) = 1
  /\ \A f \in pendingFrames : f.isSeeking /\ f.id = animationFrameRef

\* C12: once the graph exists, every engine parameter equals its canonical
\* state field, however the setter calls interleave with initialization.
C12_EngineFollowsState ==
  GraphBuilt =>
    /\ engineRate = playbackRate
    /\ enginePitch = pitch
    /\ engineDecay = reverbDecay
    /\ engineEq = eq

\* C13: once decay changes are possible, the engine's decay and the decay the
\* last regeneration was started with are the canonical reverbDecay, the last
\* value set, whatever the order in which regenerations complete.
C13_LastDecayNotDropped ==
  isReady => (engineDecay = reverbDecay /\ lastGenerate = reverbDecay)

\* C14: no state is reachable in which a step of initialization has failed
\* (Tone.start() or reverb.generate() rejected, or the asset failed to load)
\* and isReady is true.
C14_FailedInitNeverReady ==
  (setupPc = "failed" \/ loadState = "error") => ~isReady

\* C15: a rate change while playing sets the player's rate to the new value
\* at once, leaves isPlaying and the player's state alone and makes no start
\* or stop call; and every start call is made with the player's rate equal to
\* playbackRate.
C15_RateChangeKeepsPlaying ==
  [][/\ (lastOp'.name = "setRate" /\ isPlaying) =>
          /\ playbackRate' = SliderValue(lastOp'.arg, RateMin, RateMax,
                                         RateStep)
          /\ engineRate' = playbackRate'
          /\ isPlaying' /\ playerState' = playerState
          /\ calls' = calls
     /\ (CountCalls("start", calls') # CountCalls("start", calls)) =>
          /\ engineRate' = playbackRate'
          /\ playerState' = "started"]_vars

\* C15 witness: the rate was changed during playback; the player is still
\* started, after its one start call, and runs at the new rate.
C15_Witness ==
  /\ lastOp.name = "setRate" /\ isPlaying /\ playerState = "started"
  /\ playbackRate # InitialRate /\ engineRate = playbackRate
  /\ calls = <<Call("start", 0)>>

\* C16: for every decay from 0 to 5 seconds in steps of 0.1 the reverb label
\* is "Dry" below 0.5, "Medium Room" from 0.5 to below 1.5, "Large Hall" from
\* 1.5 to below 3 and "Cathedral" from 3 on; 0.3 gives "Dry" and 4 gives
\* "Cathedral".
C16_ReverbLabel ==
  /\ reverbDecay \in DecayMin..DecayMax
  /\ reverbDecay < 5 => getReverbName = "Dry"
  /\ (5 <= reverbDecay /\ reverbDecay < 15) => getReverbName = "Medium Room"
  /\ (15 <= reverbDecay /\ reverbDecay < 30) => getReverbName = "Large Hall"
  /\ 30 <= reverbDecay => getReverbName = "Cathedral"
  /\ reverbDecay = 3 => getReverbName = "Dry"
  /\ reverbDecay = 40 => getReverbName = "Cathedral"

\* C16 witness: the slider was moved to 4 seconds and the label reads
\* "Cathedral".
C16_Witness ==
  /\ lastOp.name = "setDecay" /\ lastOp.arg = 40
  /\ reverbDecay = 40 /\ getReverbName = "Cathedral"

\* C17: for every band and every whole gain n from -30 to 30 the label is
\* "Neutral" for 0, "Boost +{n}dB" for n > 0 and "Cut {|n|}dB" for n < 0, and
\* the numeric display is "{n}dB" with its sign; -5 gives "Cut 5dB" and
\* "-5dB".
C17_EqLabel ==
  \A band \in Bands :
    LET n == eq[band] \div 10
    IN /\ eq[band] = 10 * n /\ n \in -30..30
       /\ n = 0 => getEqName(band) = "Neutral"
       /\ n > 0 => getEqName(band) = "Boost +" \o ToString(n) \o "dB"
       /\ n < 0 => getEqName(band) = "Cut " \o ToString(-n) \o "dB"
       /\ EqNumericValue(band) = ToString(n) \o "dB"
       /\ n = -5 => (getEqName(band) = "Cut 5dB"
                     /\ EqNumericValue(band) = "-5dB")

\* C17 witness: the bass slider was moved to -5 dB; the label reads
\* "Cut 5dB" and the display "-5dB".
C17_Witness ==
  /\ lastOp.name = "setEq" /\ lastOp.arg = -50
  /\ eq["low"] = -50
  /\ getEqName("low") = "Cut 5dB" /\ EqNumericValue("low") = "-5dB"

\* C18: a seekTo sets position to the slider's value at once, seeking or not,
\* and makes no call on the player; seek calls are made by endSeek only.
C18_SeekToIsLocal ==
  [][/\ lastOp'.name = "seekTo" =>
          /\ position' = SeekSliderValue(lastOp'.arg)
          /\ calls' = calls /\ enginePos' = enginePos
          /\ isSeeking' = isSeeking
     /\ (CountCalls("seek", calls') # CountCalls("seek", calls)) =>
          lastOp'.name = "endSeek"]_vars

\* C18 witness: during a drag in playback the slider was moved; position has
\* the slider's value, the playhead is elsewhere and no seek call was made.
C18_Witness ==
  /\ lastOp.name = "seekTo" /\ isSeeking /\ isPlaying
  /\ playerState = "started"
  /\ position = SeekSliderValue(lastOp.arg) /\ position # enginePos
  /\ CountCalls("seek", calls) = 0

\* The session is playing, the player is started and no seek gesture is in
\* progress.
PlayingRunning ==
  mounted /\ isPlaying /\ playerState = "started" /\ ~isSeeking

\* C19: every tick arms the next frame callback, whether or not it wrote the
\* position; it writes the position only if the player is started and
\* isSeeking is false, and then writes the playhead; and when frames are
\* scheduled fairly, a session that is playing, running and not seeking either
\* leaves that condition or gets its position written from the playhead by a
\* tick.
C19_TickRearmsAndWrites ==
  /\ [][lastOp'.name = "tick" =>
          /\ pendingFrames' # {}
          /\ animationFrameRef' \in FrameIds(pendingFrames')
          /\ position' # position =>
               (playerState = "started" /\ ~isSeeking
                /\ position' = enginePos)]_vars
  /\ PlayingRunning ~>
       (~PlayingRunning \/ (lastOp.name = "tick" /\ position = enginePos))

\* C19 witness: the player stopped at the end of its buffer while isPlaying is
\* still true; a tick ran, wrote nothing, and the next callback is pending.
C19_Witness ==
  /\ lastOp.name = "tick" /\ isPlaying /\ playerState = "stopped"
  /\ position # enginePos
  /\ pendingFrames # {}

\* C21: band changes, one or several before a re-render, change only the
\* bands they name: each such band gets the gain of the last change that
\* names it, every other band keeps its gain, and no other state field
\* changes.
C21_EqChangeTouchesOnlyItsBand ==
  [][lastOp'.name = "setEqBatch" =>
       LET updates == lastOp'.arg
           Of(b) == {i \in 1..Len(updates) : updates[i].band = b}
           Last(b) == CHOOSE i \in Of(b) : \A j \in Of(b) : j <= i
       IN /\ \A b \in Bands :
               eq'[b] = (IF Of(b) = {} THEN eq[b]
                         ELSE parseInt(SliderValue(updates[Last(b)].raw,
                                                   EqMin, EqMax, EqStep)))
          /\ UNCHANGED <<isReady, isPlaying, playbackRate, pitch,
                         reverbDecay, duration, position, isSeeking>>]_vars

\* C21 witness: the bass and then the mid slider were changed before one
\* render; both gains are stored and reached the engine, the treble is
\* untouched.
C21_Witness ==
  /\ lastOp.name = "setEqBatch"
  /\ Len(lastOp.arg) = 2
  /\ lastOp.arg[1].band = "low" /\ lastOp.arg[2].band = "mid"
  /\ eq = [low |-> -50, mid |-> 300, high |-> InitialGain]
  /\ engineEq = eq

====
